---- MODULE Spec2Model ----
(***************************************************************************)
(* A model of csv_formatter.py: the CSV -> normalise -> lookup merge ->    *)
(* Excel sheet -> pivot pipeline.                                          *)
(*                                                                         *)
(* Text is a sequence of one-character strings, so that strip, lower,     *)
(* str.replace and the suffixing of column names are computed, not         *)
(* assumed.  A cell is a text or Null (pandas NaN / NaT).  A relation      *)
(* (DataFrame) is [cols: sequence of column names, rows: sequence of       *)
(* functions column name -> cell].                                         *)
(***************************************************************************)
EXTENDS Integers, Sequences, FiniteSets, TLC

VARIABLES
    pc,           \* position of the run inside process_csv and its callees
    ret,          \* what process_csv returned: "none" (running), "True", "False", "raised"
    raw,          \* the relation the CSV file holds
    nowDay,       \* datetime.now() as a day number
    do_vlookup,   \* do_vlookup and lookup_path
    sheet,        \* the relation Sheet1 of the lookup file holds
    csvLog,       \* the encodings read_csv_with_fallback has tried, with their outcomes
    csvResult,    \* what read_csv_with_fallback returned
    prepared,     \* what prepare_dataframe returned
    again,        \* what prepare_dataframe returned when applied to its own output
    df,           \* the primary relation (the local df of process_csv / apply_vlookup)
    df0,          \* the primary relation as it was when apply_vlookup was called
    lookLog,      \* the engines read_lookup_file has tried, with their outcomes
    lookup_df,    \* what read_lookup_file returned
    answers,      \* what the user typed into the two column prompts
    key_column,
    value_column,
    merged,       \* what perform_merge returned
    saved,        \* what save_to_excel wrote to the primary sheet
    xl            \* the Excel session of create_pivot_table

inVars == <<raw, nowDay, do_vlookup, sheet>>
csvVars == <<csvLog, csvResult>>
prepVars == <<prepared, again>>
lookVars == <<lookLog, lookup_df>>
joinVars == <<answers, key_column, value_column, merged>>

vars == <<pc, ret, inVars, csvVars, prepVars, df, df0, lookVars, joinVars, saved, xl>>

-----------------------------------------------------------------------------
(* Text *)

Null == <<"<NaN>">>
None == [none |-> TRUE]
NotYet == [notyet |-> TRUE]

T_nan == <<"n", "a", "n">>
T_none == <<"n", "o", "n", "e">>
T_New == <<"N", "e", "w">>
T_dot0 == <<".", "0">>

UpperChars == <<"A", "B", "C", "D", "E", "F", "G", "H", "I", "J", "K", "L", "M",
                "N", "O", "P", "Q", "R", "S", "T", "U", "V", "W", "X", "Y", "Z">>
LowerChars == <<"a", "b", "c", "d", "e", "f", "g", "h", "i", "j", "k", "l", "m",
                "n", "o", "p", "q", "r", "s", "t", "u", "v", "w", "x", "y", "z">>

LowerChar(c) ==
    IF \E i \in DOMAIN UpperChars : UpperChars[i] = c
    THEN LowerChars[CHOOSE i \in DOMAIN UpperChars : UpperChars[i] = c]
    ELSE c

\* str.lower()
Lower(s) == [i \in DOMAIN s |-> LowerChar(s[i])]

IsSpace(c) == c \in {" ", "\t", "\n", "\r"}

RECURSIVE LStrip(_)
LStrip(s) == IF s # <<>> /\ IsSpace(Head(s)) THEN LStrip(Tail(s)) ELSE s

RECURSIVE RStrip(_)
RStrip(s) ==
    IF s # <<>> /\ IsSpace(s[Len(s)]) THEN RStrip(SubSeq(s, 1, Len(s) - 1)) ELSE s

\* str.strip()
Strip(s) == RStrip(LStrip(s))

\* str(x) of a cell: NaN prints as "nan"
AsStr(c) == IF c = Null THEN T_nan ELSE c

\* s.replace(pat, ''): every non-overlapping occurrence, left to right
RECURSIVE RemoveAll(_, _)
RemoveAll(s, pat) ==
    IF Len(s) < Len(pat) THEN s
    ELSE IF SubSeq(s, 1, Len(pat)) = pat
         THEN RemoveAll(SubSeq(s, Len(pat) + 1, Len(s)), pat)
         ELSE <<Head(s)>> \o RemoveAll(Tail(s), pat)

EndsWith(s, suf) ==
    Len(s) >= Len(suf) /\ SubSeq(s, Len(s) - Len(suf) + 1, Len(s)) = suf

-----------------------------------------------------------------------------
(* Relations *)

Range(q) == {q[i] : i \in DOMAIN q}
ColSet(r) == Range(r.cols)
HasCol(r, c) == c \in ColSet(r)
NRows(r) == Len(r.rows)
\* x is a relation, not None or another marker
IsRel(x) == "cols" \in DOMAIN x

\* df[c] = vals: replaces the column, or appends it as the last one
AssignCol(r, c, vals) ==
    [cols |-> IF HasCol(r, c) THEN r.cols ELSE Append(r.cols, c),
     rows |-> [i \in 1..NRows(r) |->
                 [x \in ColSet(r) \cup {c} |->
                     IF x = c THEN vals[i] ELSE r.rows[i][x]]]]

\* df.drop(S, axis=1)
DropCols(r, S) ==
    [cols |-> SelectSeq(r.cols, LAMBDA c : c \notin S),
     rows |-> [i \in 1..NRows(r) |-> [x \in ColSet(r) \ S |-> r.rows[i][x]]]]

\* df[colseq], every name of colseq being a column of df
Select(r, colseq) ==
    [cols |-> colseq,
     rows |-> [i \in 1..NRows(r) |-> [x \in Range(colseq) |-> r.rows[i][x]]]]

\* the cells of one column, top to bottom
Column(r, c) == [i \in 1..NRows(r) |-> r.rows[i][c]]

RECURSIVE Flatten(_)
Flatten(qq) == IF qq = <<>> THEN <<>> ELSE Head(qq) \o Flatten(Tail(qq))

-----------------------------------------------------------------------------
(* VLOOKUP: read_lookup_file, determine_lookup_columns, clean_key_column,   *)
(* perform_merge, process_merge_results                                     *)

engines == <<"openpyxl", "xlrd">>

default_key == "Case Number"
default_value == "Remarks"

\* A prompt that hands back whatever was typed.
prompt_user_column_unchecked(answer, columns) == answer

\* prompt_user_column: the typed name if it is one of the columns, else ""
\* (a cancelled dialog is the answer "")
prompt_user_column(answer, columns) ==
    IF answer \in Range(columns) THEN answer ELSE ""

\* determine_lookup_columns: <<key_column, value_column>>, "" for unresolved
determine_lookup_columns(d, lk, ans) ==
    LET key == IF default_key \notin ColSet(lk)
               THEN prompt_user_column(ans.key, lk.cols)
               ELSE default_key
        value == IF default_value \notin ColSet(lk)
                 THEN prompt_user_column(ans.value, lk.cols)
                 ELSE default_value
    IN  IF key = "" THEN <<"", "">>
        ELSE IF key \notin ColSet(d) THEN <<"", "">>
        ELSE IF value = "" THEN <<key, "">>
        ELSE <<key, value>>

\* '.0' read as a regular expression: any character followed by 0
RECURSIVE RemoveAnyChar0(_)
RemoveAnyChar0(s) ==
    IF Len(s) < 2 THEN s
    ELSE IF s[2] = "0" /\ s[1] # "\n"
         THEN RemoveAnyChar0(SubSeq(s, 3, Len(s)))
         ELSE <<Head(s)>> \o RemoveAnyChar0(Tail(s))

clean_key_column_regex(d, column) ==
    AssignCol(d, column,
              [i \in 1..NRows(d) |-> RemoveAnyChar0(AsStr(d.rows[i][column]))])

\* clean_key_column: astype(str), then every ".0" removed
clean_key_column(d, column) ==
    AssignCol(d, column,
              [i \in 1..NRows(d) |-> RemoveAll(AsStr(d.rows[i][column]), T_dot0)])

\* DataFrame.merge(right, on=key, how='left'): every left row in order, once per
\* right row with an equal key (in right order), or once with NaN when none has;
\* a column name the two sides share besides the key gets "_x" / "_y".
MergeLeft(left, right, key) ==
    LET overlap == (ColSet(left) \cap ColSet(right)) \ {key}
        LName(c) == IF c \in overlap THEN c \o "_x" ELSE c
        RName(c) == IF c \in overlap THEN c \o "_y" ELSE c
        rcols == SelectSeq(right.cols, LAMBDA c : c # key)
        cols == [i \in DOMAIN left.cols |-> LName(left.cols[i])]
                \o [i \in DOMAIN rcols |-> RName(rcols[i])]
        Idx == [j \in 1..NRows(right) |-> j]
        Matches(i) ==
            SelectSeq(Idx, LAMBDA j : right.rows[j][key] = left.rows[i][key])
        Row(i, j) ==
            [x \in Range(cols) |->
                IF \E c \in ColSet(left) : LName(c) = x
                THEN left.rows[i][CHOOSE c \in ColSet(left) : LName(c) = x]
                ELSE IF j = 0 THEN Null
                     ELSE right.rows[j][CHOOSE c \in Range(rcols) : RName(c) = x]]
        RowsFor(i) ==
            IF Matches(i) = <<>> THEN <<Row(i, 0)>>
            ELSE [k \in DOMAIN Matches(i) |-> Row(i, Matches(i)[k])]
    IN  [cols |-> cols,
         rows |-> Flatten([i \in 1..NRows(left) |-> RowsFor(i)])]

\* perform_merge: the left join on lookup_df[[key, value]]; None when it raises
\* (a name that is no lookup column: KeyError; key = value: the projection has
\* the label twice and merge raises "column label is not unique")
perform_merge(d, lk, key, value) ==
    IF key \notin ColSet(lk) \/ value \notin ColSet(lk) \/ key \notin ColSet(d)
       \/ key = value
    THEN None
    ELSE MergeLeft(d, Select(lk, <<key, value>>), key)

\* the null sentinels of process_merge_results
Sentinels == {T_nan, <<>>, T_none}

\* the rule of lines 260-264: the lookup result if usable, else the original
Overlay(vlookup_result, original_remark) ==
    IF vlookup_result # <<>> /\ Lower(vlookup_result) \notin Sentinels
    THEN vlookup_result
    ELSE original_remark

\* process_merge_results
process_merge_results(m, value) ==
    LET original_remarks_col ==
            IF HasCol(m, "Remarks_x") THEN "Remarks_x" ELSE "Remarks"
        lookup_remarks_col ==
            IF HasCol(m, "Remarks_y") THEN "Remarks_y" ELSE value
        m1 == IF HasCol(m, lookup_remarks_col)
              THEN AssignCol(m, lookup_remarks_col,
                       [i \in 1..NRows(m) |->
                           IF m.rows[i][lookup_remarks_col] = Null THEN <<>>
                           ELSE m.rows[i][lookup_remarks_col]])
              ELSE m
        \* merged['Remarks'] = ''
        m2 == AssignCol(m1, "Remarks", [i \in 1..NRows(m1) |-> <<>>])
        vlookup_result(i) ==
            IF HasCol(m2, lookup_remarks_col)
            THEN Strip(AsStr(m2.rows[i][lookup_remarks_col])) ELSE <<>>
        original_remark(i) ==
            IF HasCol(m2, original_remarks_col)
            THEN Strip(AsStr(m2.rows[i][original_remarks_col])) ELSE <<>>
        m3 == AssignCol(m2, "Remarks",
                  [i \in 1..NRows(m2) |->
                      Overlay(vlookup_result(i), original_remark(i))])
        cols_to_drop ==
            (IF HasCol(m3, "Remarks_x") THEN {"Remarks_x"} ELSE {})
            \cup (IF HasCol(m3, "Remarks_y") THEN {"Remarks_y"} ELSE {})
            \cup (IF value # "Remarks" /\ HasCol(m3, value) THEN {value} ELSE {})
    IN  DropCols(m3, cols_to_drop)

-----------------------------------------------------------------------------
(* Inputs *)

MaxRows == 2         \* rows of a primary relation
MaxLookupRows == 2   \* rows of a lookup sheet

\* the projection of prepare_dataframe (selected_columns, 'Remarks' appended)
selected_columns ==
    <<"Case Number", "SLA", "Customer Name", "Street", "Zip/Postal Code",
      "Customer Complaint", "Product Description", "LineItem Status",
      "Technician Name", "Remarks">>

T_a == <<"a">>
T_0 == <<"0">>
T_old == <<"o", "l", "d">>
T_ok == <<"o", "k">>
T_p_padded == <<" ", "p", " ">>
T_NONE == <<"N", "O", "N", "E">>
K_1 == <<"1">>
K_1dot0 == <<"1", ".", "0">>
K_10 == <<"1", "0">>

\* a normalised primary row with the given case number and remarks
PrimaryRow(k, r) ==
    [c \in Range(selected_columns) |->
        CASE c = "Case Number" -> k
          [] c = "Remarks" -> r
          [] c = "SLA" -> T_0
          [] c = "LineItem Status" -> T_New
          [] OTHER -> T_a]

PrimaryKeys == {K_1dot0, K_10}
PrimaryRemarks == {T_old, T_p_padded}
PrimaryRows == {PrimaryRow(k, r) : k \in PrimaryKeys, r \in PrimaryRemarks}

SeqsUpTo(S, n) == UNION {[1..m -> S] : m \in 0..n}

Primaries == {[cols |-> selected_columns, rows |-> q] : q \in SeqsUpTo(PrimaryRows, MaxRows)}

\* lookup sheets: a key-like column and a value-like column
LookupSchemas ==
    {<<"Case Number", "Remarks">>, <<"Case Number", "Notes">>,
     <<"ID", "Remarks">>, <<"Case Number", "Street">>}
LookupKeys == {K_1, K_1dot0}
LookupValues == {Null, T_ok, T_NONE}

LookupSheets ==
    UNION {{[cols |-> sc,
             rows |-> [i \in DOMAIN q |->
                          [c \in Range(sc) |-> IF c = sc[1] THEN q[i][1] ELSE q[i][2]]]]
            : q \in SeqsUpTo(LookupKeys \X LookupValues, MaxLookupRows)}
           : sc \in LookupSchemas}

\* what can be typed into a prompt: a lookup column, nothing, or another name
Typed(lk) == ColSet(lk) \cup {"", "Bogus"}

NoAnswers == [key |-> "", value |-> ""]

XlIdle == [method |-> 0, excel |-> 0, acquired |-> {}, quit |-> {},
           wb |-> FALSE, opened |-> FALSE, closed |-> FALSE]

-----------------------------------------------------------------------------
(* apply_vlookup, step by step *)

\* read_lookup_file, one engine per step; after the last failure it returns None
\* and apply_vlookup returns df as it is
VTryEngine ==
    /\ pc = "v_read"
    /\ Len(lookLog) < Len(engines)
    /\ \E outcome \in {"ok", "Exception"} :
         LET log == Append(lookLog, [engine |-> engines[Len(lookLog) + 1],
                                     outcome |-> outcome])
         IN  /\ lookLog' = log
             /\ IF outcome = "ok"
                THEN /\ lookup_df' = sheet
                     /\ pc' = "v_determine"
                ELSE IF Len(log) = Len(engines)
                THEN /\ lookup_df' = None
                     /\ pc' = "save"
                ELSE /\ lookup_df' = lookup_df
                     /\ pc' = pc
    /\ UNCHANGED <<ret, inVars, csvVars, prepVars, df, df0, joinVars, saved, xl>>

\* determine_lookup_columns and the test of line 134; a prompt is shown only
\* when the conventional name is missing
VDetermine ==
    /\ pc = "v_determine"
    /\ \E ak \in Typed(lookup_df), av \in Typed(lookup_df) :
         /\ default_key \in ColSet(lookup_df) => ak = ""
         /\ default_value \in ColSet(lookup_df) => av = ""
         /\ LET ans == [key |-> ak, value |-> av]
                kv == determine_lookup_columns(df, lookup_df, ans)
            IN  /\ kv[1] = "" => av = ""    \* no second prompt after an early return
                /\ answers' = ans
                /\ key_column' = kv[1]
                /\ value_column' = kv[2]
                /\ pc' = IF kv[1] = "" \/ kv[2] = "" THEN "save" ELSE "v_clean"
    /\ merged' = merged
    /\ UNCHANGED <<ret, inVars, csvVars, prepVars, df, df0, lookVars, saved, xl>>

\* lines 138-139: both key columns cleaned, df rebound to the cleaned relation
VClean ==
    /\ pc = "v_clean"
    /\ df' = clean_key_column(df, key_column)
    /\ lookup_df' = clean_key_column(lookup_df, key_column)
    /\ pc' = "v_merge"
    /\ lookLog' = lookLog
    /\ UNCHANGED <<ret, inVars, csvVars, prepVars, df0, joinVars, saved, xl>>

\* line 145, and line 148 when the merge failed
VMerge ==
    /\ pc = "v_merge"
    /\ merged' = perform_merge(df, lookup_df, key_column, value_column)
    /\ pc' = IF merged' = None THEN "save" ELSE "v_process"
    /\ UNCHANGED <<answers, key_column, value_column>>
    /\ UNCHANGED <<ret, inVars, csvVars, prepVars, df, df0, lookVars, saved, xl>>

\* line 149
VProcess ==
    /\ pc = "v_process"
    /\ df' = process_merge_results(merged, value_column)
    /\ pc' = "save"
    /\ UNCHANGED <<ret, inVars, csvVars, prepVars, df0, lookVars, joinVars, saved, xl>>

InitVlookup ==
    /\ pc = "v_read"
    /\ ret = "none"
    /\ raw = None
    /\ csvLog = <<>>
    /\ csvResult = NotYet
    /\ prepared = NotYet
    /\ again = NotYet
    /\ nowDay = 0
    /\ df \in Primaries
    /\ df0 = df
    /\ do_vlookup = TRUE
    /\ sheet \in LookupSheets
    /\ lookLog = <<>>
    /\ lookup_df = NotYet
    /\ answers = NoAnswers
    /\ key_column = ""
    /\ value_column = ""
    /\ merged = NotYet
    /\ saved = NotYet
    /\ xl = XlIdle

NextVlookup == VTryEngine \/ VDetermine \/ VClean \/ VMerge \/ VProcess

\* apply_vlookup on every normalised primary relation and lookup sheet of the bounds
SpecVlookup == InitVlookup /\ [][NextVlookup]_vars

-----------------------------------------------------------------------------
(* Claims about apply_vlookup (checked under SpecVlookup) *)

\* perform_merge has returned a relation
MergeDone == pc \in {"v_process", "save"} /\ IsRel(merged)

\* C1 (as stated): the relation perform_merge returns has exactly as many rows as
\* the primary relation, whatever the lookup holds, repeated keys included.
C1_MergePreservesRowCount ==
    MergeDone => NRows(merged) = NRows(df0)

\* the joined lookup cell of merged row i and the Remarks cell the primary row
\* brought into the join, read off the join's output
JoinedLookupCell(i) ==
    IF HasCol(merged, value_column) /\ value_column \notin ColSet(df0)
    THEN merged.rows[i][value_column]
    ELSE merged.rows[i][value_column \o "_y"]
JoinedPrimaryRemarks(i) ==
    IF HasCol(merged, "Remarks_x") THEN merged.rows[i]["Remarks_x"]
    ELSE merged.rows[i]["Remarks"]
Usable(v) ==
    v # Null /\ Strip(v) # <<>> /\ Lower(Strip(v)) \notin {T_nan, <<>>, T_none}

\* C2 (as stated): after process_merge_results, for every merged row and every
\* resolved value-column name, the final Remarks is the looked-up value when that
\* value is usable, and otherwise the Remarks the primary row had before the merge.
C2_OverlayKeepsOriginal ==
    (pc = "save" /\ IsRel(merged)) =>
        \A i \in 1..NRows(merged) :
            df.rows[i]["Remarks"] =
                IF Usable(JoinedLookupCell(i)) THEN Strip(JoinedLookupCell(i))
                ELSE JoinedPrimaryRemarks(i)

\* the abort conditions of C3, stated on the inputs
LookupUnreadable == lookup_df = None
ResolvedKey ==
    IF default_key \in ColSet(sheet) THEN default_key ELSE answers.key
KeyPromptFails ==
    /\ default_key \notin ColSet(sheet)
    /\ (answers.key = "" \/ answers.key \notin ColSet(sheet))
KeyAbsentFromPrimary == ResolvedKey \notin ColSet(df0)
ValuePromptFails ==
    /\ default_value \notin ColSet(sheet)
    /\ (answers.value = "" \/ answers.value \notin ColSet(sheet))
JoinUnresolved ==
    /\ IsRel(lookup_df)
    /\ \/ KeyPromptFails
       \/ KeyAbsentFromPrimary
       \/ ValuePromptFails
       \/ key_column = ""
       \/ value_column = ""

\* C3: when the lookup file is unreadable or the key or value column stays
\* unresolved, apply_vlookup returns the primary relation exactly as it was at
\* the call (key column and Remarks included) and nothing is raised.
C3_AbortLeavesPrimaryUnchanged ==
    (pc = "save" /\ (LookupUnreadable \/ JoinUnresolved)) =>
        /\ df = df0
        /\ ret = "none"

\* C3's case: the key resolved, the value prompt failed, and the primary holds a
\* key that cleaning would have rewritten
C3_Witness ==
    /\ pc = "save"
    /\ IsRel(lookup_df)
    /\ ValuePromptFails
    /\ key_column = "Case Number"
    /\ \E i \in 1..NRows(df0) : df0.rows[i]["Case Number"] = K_1dot0

\* C4 (as stated): when perform_merge returns None, apply_vlookup returns the
\* primary relation cell for cell as it was at the call, key column included.
C4_FallbackIsCallTimeRelation ==
    (pc = "save" /\ merged = None) => df = df0

\* C4 (amended): when perform_merge returns None, apply_vlookup returns the
\* relation as it stood just before the merge: the columns and rows of the call,
\* every cell outside the key column unchanged, and every key cell replaced by
\* its string form with each ".0" removed.
C4_FallbackIsCleanedRelation ==
    (pc = "save" /\ merged = None) =>
        /\ df.cols = df0.cols
        /\ NRows(df) = NRows(df0)
        /\ \A i \in 1..NRows(df0) : \A c \in ColSet(df0) :
              df.rows[i][c] =
                  IF c = key_column
                  THEN RemoveAll(AsStr(df0.rows[i][c]), T_dot0)
                  ELSE df0.rows[i][c]

\* C4's case: the merge raised and the fallback differs from the call-time relation
C4_Witness ==
    /\ pc = "save"
    /\ merged = None
    /\ df # df0

-----------------------------------------------------------------------------
(* clean_key_column on every short key over the characters 1, 0 and "." *)

MaxKeyLen == 4

KeyChars == {"1", "0", "."}
KeyTexts == UNION {[1..n -> KeyChars] : n \in 1..MaxKeyLen}
KeyCells == KeyTexts \cup {Null}

InitKey ==
    /\ pc = "v_clean"
    /\ ret = "none"
    /\ raw = None
    /\ csvLog = <<>>
    /\ csvResult = NotYet
    /\ prepared = NotYet
    /\ again = NotYet
    /\ nowDay = 0
    /\ \E k \in KeyCells :
          df = [cols |-> selected_columns, rows |-> <<PrimaryRow(k, T_old)>>]
    /\ df0 = df
    /\ do_vlookup = TRUE
    /\ \E k \in KeyCells :
          sheet = [cols |-> <<"Case Number", "Remarks">>,
                   rows |-> <<[c \in {"Case Number", "Remarks"} |->
                                  IF c = "Case Number" THEN k ELSE T_ok]>>]
    /\ lookLog = <<[engine |-> engines[1], outcome |-> "ok"]>>
    /\ lookup_df = sheet
    /\ answers = NoAnswers
    /\ key_column = default_key
    /\ value_column = default_value
    /\ merged = NotYet
    /\ saved = NotYet
    /\ xl = XlIdle

NextKey == VClean \/ VMerge

\* lines 138-145 of apply_vlookup from the point where both columns are resolved
SpecKey == InitKey /\ [][NextKey]_vars

\* what the claim says a key becomes: a trailing ".0" cut off, nothing else
TrailingDot0Cut(s) ==
    IF EndsWith(s, T_dot0) THEN SubSeq(s, 1, Len(s) - 2) ELSE s

\* C5 (as stated): clean_key_column maps every key to its string form with a
\* trailing ".0" removed and leaves it unchanged otherwise, so two keys are
\* equal after cleaning exactly when they are equal up to a trailing ".0".
C5_OnlyTrailingDot0Removed ==
    pc \in {"v_merge", "v_process", "save"} =>
        /\ \A i \in 1..NRows(df0) :
              Column(df, key_column)[i] = TrailingDot0Cut(AsStr(Column(df0, key_column)[i]))
        /\ \A j \in 1..NRows(sheet) :
              Column(lookup_df, key_column)[j]
                  = TrailingDot0Cut(AsStr(Column(sheet, key_column)[j]))
        /\ \A i \in 1..NRows(df0) : \A j \in 1..NRows(sheet) :
              (Column(df, key_column)[i] = Column(lookup_df, key_column)[j])
              <=> (TrailingDot0Cut(AsStr(Column(df0, key_column)[i]))
                   = TrailingDot0Cut(AsStr(Column(sheet, key_column)[j])))

-----------------------------------------------------------------------------
(* read_csv_with_fallback and prepare_dataframe *)

encodings == <<"utf-8", "latin1", "utf-16">>

\* the except clause of read_csv_with_fallback catches anything
CsvCaughtAny(outcome) == outcome # "ok"

\* line 295: only a UnicodeDecodeError moves on to the next encoding
CsvCaught(outcome) == outcome = "UnicodeDecodeError"

KeyErr == [raised |-> "KeyError"]
Raised == [raised |-> "Exception"]
SaveFailed == [failed |-> TRUE]

FALLBACK_REMARKS ==
    << <<"v", "i", "s", "i", "t", " ", "p", "e", "n", "d", "i", "n", "g">>,
       <<"c", "u", "s", "t", "o", "m", "e", "r", " ", "n", "o", "t", " ",
         "p", "r", "e", "s", "e", "n", "t">>,
       <<"c", "a", "l", "l", " ", "c", "l", "o", "s", "e", "d", " ", "b", "y", " ",
         "4", " ", "p", "m">>,
       <<"p", "a", "r", "t", " ", "p", "e", "n", "d", "i", "n", "g">>,
       <<"c", "u", "s", "t", "o", "m", " ", "r", "e", "m", "a", "r", "k", "s">> >>

Digits == <<"0", "1", "2", "3", "4", "5", "6", "7", "8", "9">>

\* pd.to_datetime(..., errors='coerce') on a cell holding a day number:
\* the day, or -1 for NaT
ParseDay(c) ==
    IF c # Null /\ Len(c) = 1 /\ c[1] \in Range(Digits)
    THEN (CHOOSE i \in DOMAIN Digits : Digits[i] = c[1]) - 1
    ELSE -1

\* str of a small integer
IntText(n) == IF n < 0 THEN <<"-", Digits[1 - n]>> ELSE <<Digits[n + 1]>>

\* (datetime.now() - created).dt.days.fillna(0).astype(int)
SlaCell(now, c) == IF ParseDay(c) = -1 THEN T_0 ELSE IntText(now - ParseDay(c))

\* fillna(v).astype(str)
FillNa(c, v) == IF c = Null THEN v ELSE c

\* prepare_dataframe: the projected relation, or KeyErr when a column it reads
\* is missing (lines 329, 331 and 360); rnd[i] is random.choice for row i
prepare_dataframe(d, now, rnd) ==
    IF ~HasCol(d, "Created Date") THEN KeyErr
    ELSE
    LET d1 == AssignCol(d, "Created Date",
                  [i \in 1..NRows(d) |->
                      IF ParseDay(d.rows[i]["Created Date"]) = -1 THEN Null
                      ELSE d.rows[i]["Created Date"]])
        d2 == AssignCol(d1, "SLA",
                  [i \in 1..NRows(d1) |-> SlaCell(now, d1.rows[i]["Created Date"])])
    IN  IF ~HasCol(d2, "LineItem Status") THEN KeyErr
        ELSE
        LET d3 == AssignCol(d2, "LineItem Status",
                      [i \in 1..NRows(d2) |-> FillNa(d2.rows[i]["LineItem Status"], T_New)])
            remarks_col ==
                IF HasCol(d3, "Technician Remarks") THEN "Technician Remarks"
                ELSE IF HasCol(d3, "Remarks") THEN "Remarks"
                ELSE ""
            d4 == IF remarks_col # ""
                  THEN LET x == AssignCol(d3, "Remarks",
                                    [i \in 1..NRows(d3) |->
                                        FillNa(d3.rows[i][remarks_col], <<>>)])
                       IN  IF remarks_col # "Remarks" THEN DropCols(x, {remarks_col})
                           ELSE x
                  ELSE AssignCol(d3, "Remarks",
                           [i \in 1..NRows(d3) |-> FALLBACK_REMARKS[rnd[i]]])
        IN  IF Range(selected_columns) \subseteq ColSet(d4)
            THEN Select(d4, selected_columns)
            ELSE KeyErr

\* the random draws prepare_dataframe makes on d: one per row when no remarks
\* column exists, none otherwise
Draws(d) ==
    IF HasCol(d, "Technician Remarks") \/ HasCol(d, "Remarks")
    THEN {[i \in 1..NRows(d) |-> 1]}
    ELSE [1..NRows(d) -> DOMAIN FALLBACK_REMARKS]

-----------------------------------------------------------------------------
(* process_csv *)

\* read_csv_with_fallback, one encoding per step, and lines 306-308
CsvTry ==
    /\ pc = "read_csv"
    /\ Len(csvLog) < Len(encodings)
    /\ \E outcome \in {"ok", "UnicodeDecodeError", "Exception"} :
         LET log == Append(csvLog, [encoding |-> encodings[Len(csvLog) + 1],
                                    outcome |-> outcome])
         IN  /\ csvLog' = log
             /\ IF outcome = "ok"
                THEN /\ csvResult' = raw
                     /\ df' = raw
                     /\ pc' = "prepare"
                     /\ ret' = ret
                ELSE IF ~CsvCaught(outcome)
                THEN /\ csvResult' = Raised
                     /\ df' = df
                     /\ pc' = "done"
                     /\ ret' = "raised"
                ELSE IF Len(log) = Len(encodings)
                THEN /\ csvResult' = None
                     /\ df' = df
                     /\ pc' = "done"
                     /\ ret' = "False"
                ELSE /\ csvResult' = csvResult
                     /\ df' = df
                     /\ pc' = pc
                     /\ ret' = ret
    /\ UNCHANGED <<inVars, prepVars, df0, lookVars, joinVars, saved, xl>>

\* lines 311-315: prepare_dataframe, then apply_vlookup is entered or skipped
Prepare ==
    /\ pc = "prepare"
    /\ \E rnd \in Draws(df) :
         /\ prepared' = prepare_dataframe(df, nowDay, rnd)
         /\ IF prepared' = KeyErr
            THEN /\ df' = df
                 /\ df0' = df0
                 /\ pc' = "done"
                 /\ ret' = "raised"
            ELSE /\ df' = prepared'
                 /\ df0' = prepared'
                 /\ pc' = IF do_vlookup THEN "v_read" ELSE "save"
                 /\ ret' = ret
    /\ again' = again
    /\ UNCHANGED <<inVars, csvVars, lookVars, joinVars, saved, xl>>

\* lines 318-319: save_to_excel
Save ==
    /\ pc = "save"
    /\ \E outcome \in {"ok", "Exception"} :
         IF outcome = "ok"
         THEN /\ saved' = df
              /\ pc' = "pivot_init"
              /\ ret' = ret
         ELSE /\ saved' = SaveFailed
              /\ pc' = "done"
              /\ ret' = "False"
    /\ UNCHANGED <<inVars, csvVars, prepVars, df, df0, lookVars, joinVars, xl>>

-----------------------------------------------------------------------------
(* create_pivot_table *)

\* the three ways initialize_excel_application tries, in order
methods == <<"gencache.EnsureDispatch", "Dispatch", "dynamic.Dispatch">>

\* an exception inside the try block that is not caught: the finally block runs
\* and the exception leaves create_pivot_table
pivot_on_error_propagate == "pivot_finally_reraise"

\* line 471: except Exception logs the error; control goes on to the finally block
pivot_on_error == "pivot_finally"

\* kill_excel_processes (line 437) ends the Excel processes that ran before the
\* call; it comes before every acquisition and touches none of this session.
\* initialize_excel_application, one method per step.  A method either raises
\* before an application exists, or yields an application on which setting
\* Visible / DisplayAlerts raises, or yields one that is returned.  After the
\* last failure None is returned and create_pivot_table returns on line 445.
PivotInit ==
    /\ pc = "pivot_init"
    /\ xl.method < Len(methods)
    /\ \E outcome \in {"ok", "dispatch raises", "attribute raises"} :
         LET m == xl.method + 1
             got == IF outcome = "dispatch raises" THEN xl.acquired
                    ELSE xl.acquired \cup {m}
         IN  IF outcome = "ok"
             THEN /\ xl' = [xl EXCEPT !.method = m, !.acquired = got, !.excel = m]
                  /\ pc' = "pivot_open"
                  /\ ret' = ret
             ELSE IF m = Len(methods)
             THEN /\ xl' = [xl EXCEPT !.method = m, !.acquired = got]
                  /\ pc' = "done"
                  /\ ret' = "True"
             ELSE /\ xl' = [xl EXCEPT !.method = m, !.acquired = got]
                  /\ pc' = pc
                  /\ ret' = ret
    /\ UNCHANGED <<inVars, csvVars, prepVars, df, df0, lookVars, joinVars, saved>>

\* lines 448-449: excel.Workbooks.Open
PivotOpen ==
    /\ pc = "pivot_open"
    /\ \E outcome \in {"ok", "Exception"} :
         IF outcome = "ok"
         THEN /\ xl' = [xl EXCEPT !.wb = TRUE, !.opened = TRUE]
              /\ pc' = "pivot_build"
         ELSE /\ xl' = xl
              /\ pc' = pivot_on_error
    /\ UNCHANGED <<ret, inVars, csvVars, prepVars, df, df0, lookVars, joinVars, saved>>

\* lines 450-465: the data range, the pivot sheet, the cache, the table, the fields
PivotBuild ==
    /\ pc = "pivot_build"
    /\ \E outcome \in {"ok", "Exception"} :
         pc' = IF outcome = "ok" THEN "pivot_save" ELSE pivot_on_error
    /\ UNCHANGED <<ret, inVars, csvVars, prepVars, df, df0, lookVars, joinVars, saved, xl>>

\* line 468: wb.Save(); either way the finally block is next
PivotSave ==
    /\ pc = "pivot_save"
    /\ \E outcome \in {"ok", "Exception"} :
         pc' = IF outcome = "ok" THEN "pivot_finally" ELSE pivot_on_error
    /\ UNCHANGED <<ret, inVars, csvVars, prepVars, df, df0, lookVars, joinVars, saved, xl>>

\* lines 473-484: Close on the workbook if there is one, Quit on the application
\* (what either call raises is swallowed); then process_csv returns True
PivotFinally ==
    /\ pc \in {"pivot_finally", "pivot_finally_reraise"}
    /\ xl' = [xl EXCEPT !.closed = xl.wb,
                        !.quit = IF xl.excel # 0 THEN xl.quit \cup {xl.excel}
                                 ELSE xl.quit]
    /\ pc' = "done"
    /\ ret' = IF pc = "pivot_finally" THEN "True" ELSE "raised"
    /\ UNCHANGED <<inVars, csvVars, prepVars, df, df0, lookVars, joinVars, saved>>

-----------------------------------------------------------------------------
(* Raw CSV relations *)

MaxRawRows == 2

RawBase ==
    <<"Case Number", "Created Date", "Customer Name", "Phone", "Street",
      "Zip/Postal Code", "Customer Complaint", "Product Description",
      "LineItem Status", "Technician Name">>

\* column lists of a CSV export: one of the columns the normaliser reads may be
\* missing, and the remarks may come under either name, both, or not at all
RawSchemas ==
    {SelectSeq(RawBase, LAMBDA c : c \notin gone) \o rem :
        gone \in {{}, {"LineItem Status"}, {"Created Date"}, {"Street"}},
        rem \in {<<>>, <<"Technician Remarks">>, <<"Remarks">>,
                 <<"Remarks", "Technician Remarks">>}}

T_x == <<"x">>
T_Open == <<"O", "p", "e", "n">>
D_1 == <<"1">>
D_3 == <<"3">>

RawRow(cols, created, status, trem, rem) ==
    [c \in Range(cols) |->
        CASE c = "Case Number" -> K_1dot0
          [] c = "Created Date" -> created
          [] c = "LineItem Status" -> status
          [] c = "Technician Remarks" -> trem
          [] c = "Remarks" -> rem
          [] OTHER -> T_a]

\* the cells a column that is present can hold
CellsOf(cols, c, S) == IF c \in Range(cols) THEN S ELSE {Null}

RawRows(cols) ==
    {RawRow(cols, created, status, trem, rem) :
        created \in CellsOf(cols, "Created Date", {Null, T_x, D_1, D_3}),
        status \in CellsOf(cols, "LineItem Status", {Null, T_Open}),
        trem \in CellsOf(cols, "Technician Remarks", {Null, T_old}),
        rem \in CellsOf(cols, "Remarks", {Null, T_p_padded})}

\* every raw relation of at most max rows
RawInputs(max) ==
    UNION {{[cols |-> cols, rows |-> q] :
               q \in UNION {[1..n -> RawRows(cols)] : n \in 1..max}}
           : cols \in RawSchemas}

\* the exports the whole pipeline is run on: every schema, one row
PipeRaws ==
    {[cols |-> cols, rows |-> <<RawRow(cols, D_1, Null, T_old, T_p_padded)>>] :
        cols \in RawSchemas}

\* the lookup sheets the whole pipeline is run on: every schema, a matching row
\* and a second row with the same key after cleaning
PipeSheets ==
    {[cols |-> sc,
      rows |-> [i \in DOMAIN q |->
                   [c \in Range(sc) |-> IF c = sc[1] THEN q[i][1] ELSE q[i][2]]]] :
        sc \in LookupSchemas,
        q \in {<< <<K_1, T_ok>> >>, << <<K_1, T_NONE>>, <<K_1dot0, T_ok>> >>}}

-----------------------------------------------------------------------------
(* Specifications *)

Init ==
    /\ pc = "read_csv"
    /\ ret = "none"
    /\ raw \in PipeRaws
    /\ nowDay = 2
    /\ do_vlookup \in BOOLEAN
    /\ sheet \in IF do_vlookup THEN PipeSheets ELSE {None}
    /\ csvLog = <<>>
    /\ csvResult = NotYet
    /\ prepared = NotYet
    /\ again = NotYet
    /\ df = NotYet
    /\ df0 = NotYet
    /\ lookLog = <<>>
    /\ lookup_df = NotYet
    /\ answers = NoAnswers
    /\ key_column = ""
    /\ value_column = ""
    /\ merged = NotYet
    /\ saved = NotYet
    /\ xl = XlIdle

Next ==
    \/ CsvTry
    \/ Prepare
    \/ VTryEngine
    \/ VDetermine
    \/ VClean
    \/ VMerge
    \/ VProcess
    \/ Save
    \/ PivotInit
    \/ PivotOpen
    \/ PivotBuild
    \/ PivotSave
    \/ PivotFinally

\* one run of process_csv
Spec == Init /\ [][Next]_vars

\* prepare_dataframe applied to its own output
PrepareAgain ==
    /\ pc = "save"
    /\ again = NotYet
    /\ \E rnd \in Draws(df) : again' = prepare_dataframe(df, nowDay, rnd)
    /\ prepared' = prepared
    /\ UNCHANGED <<pc, ret, inVars, csvVars, df, df0, lookVars, joinVars, saved, xl>>

InitPrep ==
    /\ pc = "prepare"
    /\ ret = "none"
    /\ raw \in RawInputs(MaxRawRows)
    /\ nowDay \in {2, 3}
    /\ do_vlookup = FALSE
    /\ sheet = None
    /\ csvLog = <<[encoding |-> encodings[1], outcome |-> "ok"]>>
    /\ csvResult = raw
    /\ prepared = NotYet
    /\ again = NotYet
    /\ df = raw
    /\ df0 = NotYet
    /\ lookLog = <<>>
    /\ lookup_df = NotYet
    /\ answers = NoAnswers
    /\ key_column = ""
    /\ value_column = ""
    /\ merged = NotYet
    /\ saved = NotYet
    /\ xl = XlIdle

NextPrep == Prepare \/ PrepareAgain

\* prepare_dataframe on every raw relation of the bounds, once and twice
SpecPrep == InitPrep /\ [][NextPrep]_vars

-----------------------------------------------------------------------------
(* Claims about the readers (checked under Spec) *)

Last(q) == q[Len(q)]
CsvInOrder ==
    /\ Len(csvLog) <= Len(encodings)
    /\ \A i \in DOMAIN csvLog : csvLog[i].encoding = encodings[i]
LookInOrder ==
    /\ Len(lookLog) <= Len(engines)
    /\ \A i \in DOMAIN lookLog : lookLog[i].engine = engines[i]
AllFailed(log) == \A i \in DOMAIN log : log[i].outcome # "ok"
AllWere(log, outcome) == \A i \in DOMAIN log : log[i].outcome = outcome
CsvOver == csvResult # NotYet
LookOver == lookup_df # NotYet

\* C6 (as stated): both readers try their candidates in the fixed order, a
\* candidate that fails makes the next one be tried, the result is the relation
\* of the first candidate that succeeds, and None is returned exactly when every
\* candidate has been tried and has failed.
C6_FallbackOnAnyFailure ==
    /\ CsvInOrder
    /\ LookInOrder
    /\ \A i \in 1..(Len(csvLog) - 1) : csvLog[i].outcome # "ok"
    /\ \A i \in 1..(Len(lookLog) - 1) : lookLog[i].outcome # "ok"
    /\ CsvOver =>
          \/ csvResult = raw /\ Last(csvLog).outcome = "ok"
          \/ csvResult = None /\ Len(csvLog) = Len(encodings) /\ AllFailed(csvLog)
    /\ LookOver =>
          \/ IsRel(lookup_df) /\ Last(lookLog).outcome = "ok"
          \/ lookup_df = None /\ Len(lookLog) = Len(engines) /\ AllFailed(lookLog)

\* C6 (amended): as stated for read_lookup_file, where any exception counts; in
\* read_csv_with_fallback only a UnicodeDecodeError makes the next encoding be
\* tried and None means all three ended in one, while any other exception of a
\* candidate ends the reader with that exception, no further candidate tried.
C6_FallbackOnDecodeError ==
    /\ CsvInOrder
    /\ LookInOrder
    /\ \A i \in 1..(Len(csvLog) - 1) : csvLog[i].outcome = "UnicodeDecodeError"
    /\ \A i \in 1..(Len(lookLog) - 1) : lookLog[i].outcome = "Exception"
    /\ ~CsvOver => Len(csvLog) < Len(encodings) /\ AllWere(csvLog, "UnicodeDecodeError")
    /\ IsRel(csvResult) => csvResult = raw /\ Last(csvLog).outcome = "ok"
    /\ csvResult = None <=>
          Len(csvLog) = Len(encodings) /\ AllWere(csvLog, "UnicodeDecodeError")
    /\ csvResult = Raised <=> (csvLog # <<>> /\ Last(csvLog).outcome = "Exception")
    /\ csvResult = Raised => ret = "raised"
    /\ ~LookOver => Len(lookLog) < Len(engines) /\ AllWere(lookLog, "Exception")
    /\ IsRel(lookup_df) => Last(lookLog).outcome = "ok"
    /\ pc = "v_determine" => lookup_df = sheet
    /\ lookup_df = None <=>
          Len(lookLog) = Len(engines) /\ AllWere(lookLog, "Exception")

\* C6's case: each reader's first candidate failed and its second one succeeded
C6_Witness ==
    /\ Len(csvLog) = 2
    /\ csvLog[1].outcome = "UnicodeDecodeError"
    /\ csvResult = raw
    /\ Len(lookLog) = 2
    /\ lookLog[1].outcome = "Exception"
    /\ IsRel(lookup_df)

-----------------------------------------------------------------------------
(* Claims about create_pivot_table and process_csv (checked under Spec) *)

PivotRan == pc = "done" /\ xl.method > 0

\* C7 (as stated): when create_pivot_table has returned, every Excel application
\* that any initialisation attempt acquired has had Quit called on it and every
\* opened workbook has had Close called on it.
C7_EveryAcquiredExcelIsReleased ==
    PivotRan =>
        /\ xl.acquired \subseteq xl.quit
        /\ xl.opened => xl.closed

\* C8: once the CSV is read and normalised, process_csv raises nothing; it ends
\* with the primary sheet written and True, or with the save failed and False,
\* whatever happened in the lookup, the merge and the pivot; and it returns
\* False only when the CSV could not be read or the sheet could not be saved.
C8_FailSoft ==
    /\ IsRel(prepared) => ret # "raised"
    /\ (pc = "done" /\ IsRel(prepared)) =>
          \/ saved = SaveFailed /\ ret = "False"
          \/ IsRel(saved) /\ saved = df /\ ret = "True"
    /\ ret = "False" => (csvResult = None \/ saved = SaveFailed)

\* C8's case: the merge raised, every Excel initialisation failed, and
\* process_csv still wrote the sheet and returned True
C8_Witness ==
    /\ pc = "done"
    /\ ret = "True"
    /\ merged = None
    /\ IsRel(saved)
    /\ xl.method = Len(methods)
    /\ xl.excel = 0

-----------------------------------------------------------------------------
(* Claims about prepare_dataframe (checked under SpecPrep) *)

PrepareActed == pc # "prepare"
\* every column prepare_dataframe reads, the status column aside
OtherColumnsPresent ==
    (Range(selected_columns) \ {"SLA", "LineItem Status", "Remarks"})
        \cup {"Created Date"} \subseteq ColSet(raw)

\* C9 (as stated): without a "LineItem Status" column normalisation succeeds and
\* every row gets status "New"; with it, null and empty cells become "New" and
\* every other cell passes through unchanged.
C9_StatusDefaultsToNew ==
    (PrepareActed /\ OtherColumnsPresent) =>
        /\ IsRel(prepared)
        /\ \A i \in 1..NRows(raw) :
              prepared.rows[i]["LineItem Status"] =
                  IF ~HasCol(raw, "LineItem Status") THEN T_New
                  ELSE IF raw.rows[i]["LineItem Status"] \in {Null, <<>>} THEN T_New
                  ELSE raw.rows[i]["LineItem Status"]

\* C10 (as stated): prepare_dataframe applied to its own output succeeds and
\* returns the same ordered columns and the same cells.
C10_PrepareIsIdempotent ==
    again # NotYet => again = prepared

-----------------------------------------------------------------------------
(* Claim about the schema after the merge (checked under SpecVlookup) *)

\* how many columns of r carry the name c
CountCol(r, c) == Cardinality({i \in DOMAIN r.cols : r.cols[i] = c})

\* C11 (as stated): for every resolved value-column name, "Remarks" and a name of
\* another primary column included, the relation process_merge_results returns
\* has exactly the columns the primary relation had before the merge, with one
\* Remarks column and no "_x" / "_y" column or value-column alias left.
C11_MergeKeepsSchema ==
    (pc = "save" /\ IsRel(merged)) =>
        /\ ColSet(df) = ColSet(df0)
        /\ CountCol(df, "Remarks") = 1
        /\ \A c \in ColSet(df0) \cup {value_column} :
              /\ ~HasCol(df, c \o "_x")
              /\ ~HasCol(df, c \o "_y")
        /\ value_column \notin ColSet(df0) => ~HasCol(df, value_column)

====
